---- MODULE Spec2Model ----
(***************************************************************************)
(* update_pipeline.py: one batch run that reads all_carsales_monthly.csv,  *)
(* aggregates the monthly records per (Country, Year), derives the EV      *)
(* metrics and the latest-year ranking, and writes ev_data.js.             *)
(*                                                                         *)
(* Floating-point values are kept exact: a float is a record               *)
(*   [k |-> "num", n, d]   the rational n/d                                *)
(*   [k |-> "nan"], [k |-> "inf"], [k |-> "-inf"]   the IEEE specials      *)
(*   [k |-> "null"]        Python's None                                   *)
(***************************************************************************)
EXTENDS Integers, Sequences, FiniteSets, Bags, TLC

\* ---------------------------------------------------------------- bounds
MaxRows == 3

CountryNames == <<"A", "B">>
YYYYMMs == <<202101, 202201, 202301>>
FuelNames == <<"BatteryElectric", "PluginHybrid", "Petrol">>
Values == <<0, 1>>

\* ------------------------------------------------------ program constants
YYYYMMBase == 100
FullYear == 12
Percent == 100
Decimals == 2

\* ------------------------------------------------------------ float values
Num(n, d) == [k |-> "num", n |-> n, d |-> d]
NaN == [k |-> "nan", n |-> 0, d |-> 0]
Inf == [k |-> "inf", n |-> 1, d |-> 0]
NegInf == [k |-> "-inf", n |-> -1, d |-> 0]
None == [k |-> "null", n |-> 0, d |-> 0]

\* a / b on two numeric columns: numpy true division, no exception on b = 0
FloatDiv(a, b) ==
    IF b = 0
    THEN IF a = 0 THEN NaN ELSE IF a > 0 THEN Inf ELSE NegInf
    ELSE IF b > 0 THEN Num(a, b) ELSE Num(-a, -b)

\* x * 100
TimesPercent(x) == IF x.k = "num" THEN Num(x.n * Percent, x.d) ELSE x

RECURSIVE Pow10(_)
Pow10(e) == IF e = 0 THEN 1 ELSE 10 * Pow10(e - 1)

\* rint(n / d) for d > 0: round half to even
RoundHalfEven(n, d) ==
    LET q == n \div d
        r == n - q * d
    IN  IF 2 * r < d THEN q
        ELSE IF 2 * r > d THEN q + 1
        ELSE IF q % 2 = 0 THEN q ELSE q + 1

\* Series.round(2): NaN and infinities pass through
Round(x, decimals) ==
    IF x.k = "num"
    THEN Num(RoundHalfEven(x.n * Pow10(decimals), x.d), Pow10(decimals))
    ELSE x

\* pd.notna: only NaN/None are missing, an infinity is not
notna(x) == x.k \notin {"nan", "null"}

\* ------------------------------------------------------------- the input
NC == Len(CountryNames)
NT == Len(YYYYMMs)
NF == Len(FuelNames)
NV == Len(Values)
NumRows == NC * NT * NF * NV

\* the i-th possible CSV record, 0 <= i < NumRows
RowAt(i) ==
    [Country |-> CountryNames[(i \div (NT * NF * NV)) + 1],
     YYYYMM  |-> YYYYMMs[((i \div (NF * NV)) % NT) + 1],
     Fuel    |-> FuelNames[((i \div NV) % NF) + 1],
     Value   |-> Values[(i % NV) + 1]]

\* the non-decreasing index sequences of length n with entries >= lo: one
\* per bag of n records
RECURSIVE IndexSeqs(_, _)
IndexSeqs(n, lo) ==
    IF n = 0 THEN {<<>>}
    ELSE UNION {{<<i>> \o s : s \in IndexSeqs(n - 1, i)} :
                    i \in lo..(NumRows - 1)}

BagOf(s) ==
    [r \in {RowAt(s[i]) : i \in DOMAIN s} |->
        Cardinality({i \in DOMAIN s : RowAt(s[i]) = r})]

\* the contents of all_carsales_monthly.csv: row order never matters to a
\* groupby, so the file is the bag of its records
CsvFiles(n) == {BagOf(s) : s \in IndexSeqs(n, 0)}

Faults == {"missing_file", "bad_yyyymm", "bad_value"}

VARIABLES csv, fault, pc, df, completeness, annual_data, pivot_data,
          rankings, countries_data, file

vars == <<csv, fault, pc, df, completeness, annual_data, pivot_data,
          rankings, countries_data, file>>

Init ==
    /\ \/ fault = "none" /\ \E n \in 1..MaxRows : csv \in CsvFiles(n)
       \/ fault = "missing_file" /\ csv = EmptyBag
       \/ fault \in {"bad_yyyymm", "bad_value"} /\ csv \in CsvFiles(1)
    /\ pc = "load"
    /\ df = EmptyBag
    /\ completeness = <<>>
    /\ annual_data = <<>>
    /\ pivot_data = <<>>
    /\ rankings = <<>>
    /\ countries_data = <<>>
    /\ file = <<>>

\* ------------------------------------------------------------ helpers
RECURSIVE SeqOf(_)
SeqOf(S) ==
    IF S = {} THEN <<>>
    ELSE LET x == CHOOSE x \in S : TRUE IN <<x>> \o SeqOf(S \ {x})

Max(S) == CHOOSE x \in S : \A y \in S : y <= x

\* Series.sum() of Value over the records of bag b lying in S
RECURSIVE SumValue(_, _)
SumValue(S, b) ==
    IF S = {} THEN 0
    ELSE LET d == CHOOSE d \in S : TRUE
         IN  d.Value * b[d] + SumValue(S \ {d}, b)

\* string order of the country names
CountryOrd(c) == CHOOSE i \in 1..NC : CountryNames[i] = c

\* the sort key a column gives a row
SortKey(row, col) == IF col = "Country" THEN CountryOrd(row[col]) ELSE row[col]

\* row a sorts strictly before row b on the columns by, the first deciding
RECURSIVE Less(_, _, _)
Less(a, b, by) ==
    /\ by # <<>>
    /\ \/ SortKey(a, Head(by)) < SortKey(b, Head(by))
       \/ /\ SortKey(a, Head(by)) = SortKey(b, Head(by))
          /\ Less(a, b, Tail(by))

\* sort_values(by) ascending, rows of equal keys left in their order
SortValues(rows, by) ==
    LET n == Len(rows)
        pos(j) == 1 + Cardinality({m \in 1..n :
                        \/ Less(rows[m], rows[j], by)
                        \/ ~Less(rows[j], rows[m], by) /\ m < j})
    IN  [i \in 1..n |-> rows[CHOOSE j \in 1..n : pos(j) = i]]

\* DataFrame.get(col, default) on one row
Get(row, col, default) == IF col \in DOMAIN row THEN row[col] ELSE default

\* row with column col set to v (added, or overwritten)
SetCol(row, col, v) == (col :> v) @@ row

\* ------------------------------------------------- Step 1: read the CSV
\* read_csv raises on a missing file, the // of line 17 on a text column
LoadRaises(f) == f \in {"missing_file", "bad_yyyymm"}

WithYearMonth(r) ==
    [Country |-> r.Country, YYYYMM |-> r.YYYYMM, Fuel |-> r.Fuel,
     Value |-> r.Value,
     Year |-> r.YYYYMM \div YYYYMMBase, Month |-> r.YYYYMM % YYYYMMBase]

CsvRow(d) ==
    [Country |-> d.Country, YYYYMM |-> d.YYYYMM, Fuel |-> d.Fuel,
     Value |-> d.Value]

Load ==
    /\ pc = "load"
    /\ IF LoadRaises(fault)
       THEN pc' = "failed" /\ UNCHANGED df
       ELSE /\ df' = [d \in {WithYearMonth(r) : r \in BagToSet(csv)} |->
                         csv[CsvRow(d)]]
            /\ pc' = "completeness"
    /\ UNCHANGED <<csv, fault, completeness, annual_data, pivot_data,
                   rankings, countries_data, file>>

\* ------------------------------------------------- Step 2: completeness
Months_Available(c, y) ==
    Cardinality({d.Month : d \in {e \in BagToSet(df) :
                                    e.Country = c /\ e.Year = y}})

Completeness ==
    /\ pc = "completeness"
    /\ completeness' =
         [g \in {<<d.Country, d.Year>> : d \in BagToSet(df)} |->
            [Months_Available |-> Months_Available(g[1], g[2]),
             Is_Complete |-> Months_Available(g[1], g[2]) = FullYear]]
    /\ pc' = "aggregate"
    /\ UNCHANGED <<csv, fault, df, annual_data, pivot_data, rankings,
                   countries_data, file>>

\* -------------------------------------------- Step 3: annual aggregation
\* variant: a text Value column is aggregated without an error
AggregateNeverRaises(f) == FALSE

\* pivot_table's mean raises on the text column the groupby sum left
AggregateRaises(f) == f = "bad_value"

\* df.groupby(['Country', 'Year', 'Fuel'])['Value'].sum()
GroupSum(frame) ==
    [g \in {<<d.Country, d.Year, d.Fuel>> : d \in BagToSet(frame)} |->
        SumValue({d \in BagToSet(frame) :
                    d.Country = g[1] /\ d.Year = g[2] /\ d.Fuel = g[3]},
                 frame)]

\* one row of the pivot: Country, Year and one column per fuel seen anywhere.
\* annual holds one value per (Country, Year, Fuel), so the default mean of
\* pivot_table is that value; a missing cell is filled with 0
RECURSIVE PivotRow(_, _, _, _)
PivotRow(annual, c, y, fuels) ==
    IF fuels = {} THEN [Country |-> c, Year |-> y]
    ELSE LET f == CHOOSE f \in fuels : TRUE
         IN  SetCol(PivotRow(annual, c, y, fuels \ {f}), f,
                    IF <<c, y, f>> \in DOMAIN annual
                    THEN annual[<<c, y, f>>] ELSE 0)

\* pivot_table(index=['Country', 'Year'], columns='Fuel', fill_value=0)
pivot_table(annual) ==
    LET fuels == {g[3] : g \in DOMAIN annual}
        index == {<<g[1], g[2]>> : g \in DOMAIN annual}
    IN  SortValues(SeqOf({PivotRow(annual, k[1], k[2], fuels) : k \in index}),
                   <<"Country", "Year">>)

Aggregate ==
    /\ pc = "aggregate"
    /\ IF AggregateRaises(fault)
       THEN pc' = "failed" /\ UNCHANGED <<annual_data, pivot_data>>
       ELSE /\ annual_data' = GroupSum(df)
            /\ pivot_data' = pivot_table(annual_data')
            /\ pc' = "metrics"
    /\ UNCHANGED <<csv, fault, df, completeness, rankings, countries_data,
                   file>>

\* ------------------------------------------------------ Step 3b: metrics
\* BatteryElectric + PluginHybrid, a column that never appeared counting 0
EV_Sales(row) == Get(row, "BatteryElectric", 0) + Get(row, "PluginHybrid", 0)

\* variant: the EV categories are left out of the total
fuel_columns_non_ev(columns) ==
    {col \in columns : col \notin {"Country", "Year", "EV_Sales",
                                    "BatteryElectric", "PluginHybrid"}}

\* the columns summed into Total_Sales, chosen after EV_Sales was added
fuel_columns(columns) == {col \in columns : col \notin {"Country", "Year", "EV_Sales"}}

RECURSIVE SumCols(_, _)
SumCols(row, cols) ==
    IF cols = {} THEN 0
    ELSE LET col == CHOOSE col \in cols : TRUE
         IN  row[col] + SumCols(row, cols \ {col})

Total_Sales(row) == SumCols(row, fuel_columns(DOMAIN row))

EV_Percentage(ev, total) == Round(TimesPercent(FloatDiv(ev, total)), Decimals)

\* merge(completeness, on=['Country', 'Year'], how='left')
Merge(rows, compl) ==
    [i \in 1..Len(rows) |->
        LET g == <<rows[i]["Country"], rows[i]["Year"]>>
        IN  ("Months_Available" :> compl[g].Months_Available) @@
            ("Is_Complete" :> compl[g].Is_Complete) @@ rows[i]]

\* variant: shift(1) on the whole frame, without the groupby
ShiftUngrouped(rows, i) ==
    IF i = 1 THEN NaN ELSE Num(rows[i - 1]["EV_Sales"], 1)

\* groupby('Country')['EV_Sales'].shift(1): the EV_Sales of the nearest
\* earlier row of the same country, NaN when there is none
Shift(rows, i) ==
    LET before == {j \in 1..(i - 1) : rows[j]["Country"] = rows[i]["Country"]}
    IN  IF before = {} THEN NaN ELSE Num(rows[Max(before)]["EV_Sales"], 1)

\* ((EV_Sales - prev) / prev * 100).round(2); NaN propagates
YoY_Growth(ev, prev) ==
    IF prev.k = "nan" THEN NaN
    ELSE Round(TimesPercent(FloatDiv(ev - prev.n, prev.n)), Decimals)

\* line 51
Previous_Year_EV_Sales(rows) ==
    [i \in 1..Len(rows) |->
        SetCol(rows[i], "Previous_Year_EV_Sales", Shift(rows, i))]

\* line 37
WithEVSales(rows) ==
    [i \in 1..Len(rows) |-> SetCol(rows[i], "EV_Sales", EV_Sales(rows[i]))]

\* lines 40-41
WithTotalSales(rows) ==
    [i \in 1..Len(rows) |-> SetCol(rows[i], "Total_Sales", Total_Sales(rows[i]))]

\* line 44
WithEVPercentage(rows) ==
    [i \in 1..Len(rows) |->
        SetCol(rows[i], "EV_Percentage",
               EV_Percentage(rows[i]["EV_Sales"], rows[i]["Total_Sales"]))]

\* line 52
WithYoYGrowth(rows) ==
    [i \in 1..Len(rows) |->
        SetCol(rows[i], "YoY_Growth",
               YoY_Growth(rows[i]["EV_Sales"], rows[i]["Previous_Year_EV_Sales"]))]

Metrics ==
    /\ pc = "metrics"
    /\ pivot_data' =
         WithYoYGrowth(
           Previous_Year_EV_Sales(
             SortValues(
               Merge(WithEVPercentage(WithTotalSales(WithEVSales(pivot_data))),
                     completeness),
               <<"Country", "Year">>)))
    /\ pc' = "rank"
    /\ UNCHANGED <<csv, fault, df, completeness, annual_data, rankings,
                   countries_data, file>>

\* ------------------------------------------ Step 4: latest-year ranking
\* variant: the earliest year instead of the latest
earliest_year(rows) ==
    LET years == {rows[i]["Year"] : i \in 1..Len(rows)}
    IN  CHOOSE y \in years : \A z \in years : y <= z

latest_year(rows) == Max({rows[i]["Year"] : i \in 1..Len(rows)})

df_latest(rows) == SelectSeq(rows, LAMBDA r : r["Year"] = latest_year(rows))

RECURSIVE SumEV(_)
SumEV(rows) ==
    IF rows = <<>> THEN 0 ELSE Head(rows)["EV_Sales"] + SumEV(Tail(rows))

\* sort_values('EV_Sales', ascending=False) with the default kind
\* 'quicksort', which is not a stable sort: every arrangement of the rows
\* in non-increasing EV_Sales is a possible result
df_latest_sorted(rows) ==
    LET n == Len(rows)
        perms == {p \in [1..n -> 1..n] : \A a, b \in 1..n : a # b => p[a] # p[b]}
    IN  {[i \in 1..n |-> rows[p[i]]] : p \in
            {q \in perms : \A i \in 1..(n - 1) :
                rows[q[i]]["EV_Sales"] >= rows[q[i + 1]]["EV_Sales"]}}

\* variant: the 0-based index itself
RankZeroBased(index) == index

\* Rank = index + 1 on the 0-based index left by reset_index
Rank(index) == index + 1

Global_Share(ev, global_ev_total) == TimesPercent(FloatDiv(ev, global_ev_total))

\* the dict built by the loop of lines 67-72
Rankings(sorted, global_ev_total) ==
    [c \in {sorted[i]["Country"] : i \in 1..Len(sorted)} |->
        LET i == Max({j \in 1..Len(sorted) : sorted[j]["Country"] = c})
        IN  [rank |-> Rank(i - 1),
             global_share |-> Global_Share(sorted[i]["EV_Sales"], global_ev_total)]]

RankStep ==
    /\ pc = "rank"
    /\ \E sorted \in df_latest_sorted(df_latest(pivot_data)) :
          rankings' = Rankings(sorted, SumEV(df_latest(pivot_data)))
    /\ pc' = "serialize"
    /\ UNCHANGED <<csv, fault, df, completeness, annual_data, pivot_data,
                   countries_data, file>>

\* ------------------------------------------------- Step 5: serialization
country_df(rows, country) ==
    SortValues(SelectSeq(rows, LAMBDA r : r["Country"] = country), <<"Year">>)

Column(rows, col) == [i \in 1..Len(rows) |-> rows[i][col]]

\* variant: the loop without its else branch, a NaN appends nothing
yoy_growth_skipping(rows) ==
    LET kept == SelectSeq(rows, LAMBDA r : notna(r["YoY_Growth"]))
    IN  [i \in 1..Len(kept) |-> kept[i]["YoY_Growth"]]

\* the loop of lines 97-102: NaN becomes None, anything else stays a float
yoy_growth(rows) ==
    [i \in 1..Len(rows) |->
        IF notna(rows[i]["YoY_Growth"]) THEN rows[i]["YoY_Growth"] ELSE None]

CountryEntry(cdf, rk, country) ==
        [years |-> Column(cdf, "Year"),
         ev_sales |-> Column(cdf, "EV_Sales"),
         total_sales |-> Column(cdf, "Total_Sales"),
         ev_percentage |-> Column(cdf, "EV_Percentage"),
         yoy_growth |-> yoy_growth(cdf),
         months_available |-> Column(cdf, "Months_Available"),
         is_complete |-> [i \in 1..Len(cdf) |->
                            IF cdf[i]["Is_Complete"] THEN "Yes" ELSE "No"],
         rank |-> IF country \in DOMAIN rk
                  THEN Num(rk[country].rank, 1) ELSE None,
         global_share |-> IF country \in DOMAIN rk
                          THEN rk[country].global_share ELSE None]

Serialize ==
    /\ pc = "serialize"
    /\ countries_data' =
         [c \in {pivot_data[i]["Country"] : i \in 1..Len(pivot_data)} |->
            CountryEntry(country_df(pivot_data, c), rankings, c)]
    /\ pc' = "write"
    /\ UNCHANGED <<csv, fault, df, completeness, annual_data, pivot_data,
                   rankings, file>>

\* ------------------------------------------------------ Step 6: the file
\* json.dump of one float (allow_nan is left True): NaN and the infinities
\* are written as the bare words NaN, Infinity, -Infinity; None as null
JsonFloat(x) ==
    [tok |-> IF x.k = "num" THEN "number"
             ELSE IF x.k = "nan" THEN "NaN"
             ELSE IF x.k = "inf" THEN "Infinity"
             ELSE IF x.k = "-inf" THEN "-Infinity"
             ELSE "null",
     n |-> x.n, d |-> x.d]

JsonFloats(xs) == [i \in 1..Len(xs) |-> JsonFloat(xs[i])]

JsonDump(data) ==
    [c \in DOMAIN data |->
        [years |-> data[c].years,
         ev_sales |-> data[c].ev_sales,
         total_sales |-> data[c].total_sales,
         ev_percentage |-> JsonFloats(data[c].ev_percentage),
         yoy_growth |-> JsonFloats(data[c].yoy_growth),
         months_available |-> data[c].months_available,
         is_complete |-> data[c].is_complete,
         rank |-> JsonFloat(data[c].rank),
         global_share |-> JsonFloat(data[c].global_share)]]

\* open('ev_data.js', 'w') either raises (sink unwritable) and leaves no
\* file, or the three writes follow
Write ==
    /\ pc = "write"
    /\ \E writable \in BOOLEAN :
          IF writable
          THEN /\ file' = <<"const evData = ", JsonDump(countries_data), ";">>
               /\ pc' = "done"
          ELSE /\ file' = file
               /\ pc' = "failed"
    /\ UNCHANGED <<csv, fault, df, completeness, annual_data, pivot_data,
                   rankings, countries_data>>

Next ==
    \/ Load
    \/ Completeness
    \/ Aggregate
    \/ Metrics
    \/ RankStep
    \/ Serialize
    \/ Write

Spec == Init /\ [][Next]_vars

\* ======================================================================
\* What the source file says, computed from csv alone
\* ======================================================================
SrcRecs == BagToSet(csv)

SrcYear(r) == r.YYYYMM \div YYYYMMBase

SrcKeys == {<<r.Country, SrcYear(r)>> : r \in SrcRecs}

SrcCountries == {r.Country : r \in SrcRecs}

SrcYears(c) == {SrcYear(r) : r \in {q \in SrcRecs : q.Country = c}}

SrcLatest == Max({SrcYear(r) : r \in SrcRecs})

SrcFuels == {r.Fuel : r \in SrcRecs}

RECURSIVE SrcSum(_)
SrcSum(S) ==
    IF S = {} THEN 0
    ELSE LET r == CHOOSE r \in S : TRUE
         IN  csv[r] * r.Value + SrcSum(S \ {r})

SrcTotal(c, y) == SrcSum({r \in SrcRecs : r.Country = c /\ SrcYear(r) = y})

SrcEV(c, y) ==
    SrcSum({r \in SrcRecs : /\ r.Country = c
                            /\ SrcYear(r) = y
                            /\ r.Fuel \in {"BatteryElectric", "PluginHybrid"}})

SrcMonths(c, y) ==
    {r.YYYYMM % YYYYMMBase : r \in {q \in SrcRecs : q.Country = c /\ SrcYear(q) = y}}

\* the countries with a record in the latest year
SrcRanked == {c \in SrcCountries : <<c, SrcLatest>> \in SrcKeys}

\* the mapping written to ev_data.js
Out == file[2]

Written == pc = "done"

\* ======================================================================
\* C1: every (country, year) whose Total_Sales is 0 has the null marker as
\* its ev_percentage entry in the written series, not 0 and not NaN.
\* ======================================================================
C1_ZeroTotalIsNull ==
    Written =>
        \A c \in DOMAIN Out : \A i \in DOMAIN Out[c].years :
            SrcTotal(c, Out[c].years[i]) = 0 =>
                Out[c].ev_percentage[i].tok = "null"

\* ======================================================================
\* C2: yoy_growth is null at a country's first row and wherever the
\* preceding row's EV_Sales is 0, whatever the current EV_Sales; everywhere
\* else it is a number. Never an infinity, never NaN.
\* ======================================================================
C2_YoYNullOrNumber ==
    Written =>
        \A c \in DOMAIN Out : \A i \in DOMAIN Out[c].years :
            Out[c].yoy_growth[i].tok =
                IF i = 1 \/ SrcEV(c, Out[c].years[i - 1]) = 0
                THEN "null" ELSE "number"

\* ======================================================================
\* C3: when the EV_Sales of the latest year sum to 0, global_share is null
\* for every country ranked in that year.
\* ======================================================================
C3_ZeroGlobalTotalIsNull ==
    Written /\ (\A c \in SrcRanked : SrcEV(c, SrcLatest) = 0) =>
        \A c \in SrcRanked : Out[c].global_share.tok = "null"

\* ======================================================================
\* C4: the non-null ranks written are exactly 1..K, each once, K the number
\* of countries with a row in the latest year; rank 1 has the maximum
\* latest-year EV_Sales and a smaller rank never has smaller EV_Sales.
\* ======================================================================
C4_RanksContiguous ==
    Written =>
        LET ranked == {c \in DOMAIN Out : Out[c].rank.tok # "null"}
            K == Cardinality(SrcRanked)
        IN  /\ \A c \in ranked : Out[c].rank.tok = "number" /\ Out[c].rank.d = 1
            /\ {Out[c].rank.n : c \in ranked} = 1..K
            /\ Cardinality(ranked) = K
            /\ \A c \in ranked :
                  Out[c].rank.n = 1 =>
                      \A o \in SrcRanked : SrcEV(o, SrcLatest) <= SrcEV(c, SrcLatest)
            /\ \A c1, c2 \in ranked :
                  Out[c1].rank.n < Out[c2].rank.n =>
                      SrcEV(c1, SrcLatest) >= SrcEV(c2, SrcLatest)

C4_Witness ==
    /\ Written
    /\ Cardinality(SrcRanked) = NC
    /\ \E c1, c2 \in SrcRanked :
          /\ SrcEV(c1, SrcLatest) > SrcEV(c2, SrcLatest)
          /\ Out[c1].rank.n = 1
          /\ Out[c2].rank.n = 2

\* ======================================================================
\* C5: every country written carries rank and global_share; both come from
\* the ranking exactly when the country has a row in the latest year of the
\* whole dataset, and both are null otherwise.
\* ======================================================================
C5_RankOnlyForLatestYear ==
    Written =>
        \A c \in DOMAIN Out :
            IF c \in SrcRanked
            THEN /\ c \in DOMAIN rankings
                 /\ Out[c].rank.tok = "number"
                 /\ Out[c].rank.n = rankings[c].rank
                 /\ Out[c].global_share = JsonFloat(rankings[c].global_share)
            ELSE /\ Out[c].rank.tok = "null"
                 /\ Out[c].global_share.tok = "null"

C5_Witness ==
    /\ Written
    /\ \E c1, c2 \in DOMAIN Out :
          /\ c1 \notin SrcRanked
          /\ Out[c1].rank.tok = "null"
          /\ c2 \in SrcRanked
          /\ Out[c2].rank.tok = "number"
          /\ Out[c2].global_share.tok = "number"

\* ======================================================================
\* C6: every country of the source has one written series; its years are
\* strictly ascending, every parallel sequence has the length of years,
\* and entry i describes year years[i].
\* ======================================================================
C6_SeriesAligned ==
    Written =>
        /\ DOMAIN Out = SrcCountries
        /\ \A c \in DOMAIN Out :
              LET o == Out[c]
                  n == Len(o.years)
              IN  /\ \A i \in 1..(n - 1) : o.years[i] < o.years[i + 1]
                  /\ {o.years[i] : i \in 1..n} = SrcYears(c)
                  /\ Len(o.ev_sales) = n
                  /\ Len(o.total_sales) = n
                  /\ Len(o.ev_percentage) = n
                  /\ Len(o.yoy_growth) = n
                  /\ Len(o.months_available) = n
                  /\ Len(o.is_complete) = n
                  /\ \A i \in 1..n :
                        /\ o.ev_sales[i] = SrcEV(c, o.years[i])
                        /\ o.total_sales[i] = SrcTotal(c, o.years[i])
                        /\ o.months_available[i] =
                              Cardinality(SrcMonths(c, o.years[i]))
                        /\ o.is_complete[i] =
                              IF Cardinality(SrcMonths(c, o.years[i])) = FullYear
                              THEN "Yes" ELSE "No"

C6_Witness ==
    /\ Written
    /\ \E c \in DOMAIN Out :
          /\ Len(Out[c].years) >= 2
          /\ Len(Out[c].yoy_growth) = Len(Out[c].years)
          /\ Out[c].yoy_growth[1].tok = "null"
          /\ Out[c].yoy_growth[2].tok = "number"

\* ======================================================================
\* C7: Total_Sales of a row is the sum of Value over all source records of
\* its country and year, every observed fuel category counted once, the EV
\* categories included; the fuel columns sum to it and EV_Sales never
\* exceeds it.
\* ======================================================================
HasMetrics == pc \in {"rank", "serialize", "write", "done"}

C8_NoPartialFile ==
    /\ fault # "none" => file = <<>>
    /\ file # <<>> =>
          /\ pc = "done"
          /\ df # EmptyBag
          /\ Len(pivot_data) > 0
          /\ \A i \in 1..Len(pivot_data) : "YoY_Growth" \in DOMAIN pivot_data[i]
          /\ DOMAIN rankings # {}
          /\ DOMAIN countries_data # {}

C8_Witness == pc = "failed" /\ fault = "bad_value" /\ file = <<>>

\* ======================================================================
\* C9: the previous value of the row at position i > 1 of a country's
\* year-ascending series is the EV_Sales at position i - 1 of the same
\* country, gap year or not, and never another country's row; yoy_growth
\* is (EV_Sales - previous) / previous * 100 rounded to 2 decimals.
\* ======================================================================
PivotRowOf(c, y) ==
    pivot_data[CHOOSE i \in 1..Len(pivot_data) :
                  pivot_data[i]["Country"] = c /\ pivot_data[i]["Year"] = y]

C9_YoYPositional ==
    Written =>
        \A c \in DOMAIN Out : \A i \in DOMAIN Out[c].years :
            LET o == Out[c]
                prev == PivotRowOf(c, o.years[i])["Previous_Year_EV_Sales"]
            IN  IF i = 1
                THEN prev = NaN
                ELSE /\ prev = Num(o.ev_sales[i - 1], 1)
                     /\ o.ev_sales[i - 1] # 0 =>
                           o.yoy_growth[i] =
                              [tok |-> "number",
                               n |-> RoundHalfEven(
                                        (o.ev_sales[i] - o.ev_sales[i - 1])
                                            * Percent * Pow10(Decimals),
                                        o.ev_sales[i - 1]),
                               d |-> Pow10(Decimals)]

C9_Witness ==
    /\ Written
    /\ Cardinality(DOMAIN Out) > 1
    /\ \E c \in DOMAIN Out : \E i \in DOMAIN Out[c].years :
          /\ i > 1
          /\ Out[c].years[i] - Out[c].years[i - 1] > 1
          /\ Out[c].ev_sales[i - 1] > 0
          /\ Out[c].yoy_growth[i].tok = "number"

\* ======================================================================
\* C10: countries with equal latest-year EV_Sales keep, in their ranks, the
\* (Country, Year)-ascending order the rows had before the descending sort.
\* ======================================================================
C10_TiesKeepInputOrder ==
    Written =>
        \A c1, c2 \in SrcRanked :
            /\ SrcEV(c1, SrcLatest) = SrcEV(c2, SrcLatest)
            /\ CountryOrd(c1) < CountryOrd(c2)
            => Out[c1].rank.n < Out[c2].rank.n

====
